---- MODULE Spec2Model ----
(***************************************************************************)
(* Model of rest_framework_json_api/pagination.py: the json-api envelope   *)
(* builder PageNumberPagination (build_link, get_paginated_response) and   *)
(* the legacy flat PaginationSerializer with its five page fields.         *)
(*                                                                         *)
(* Python values that may be None are tagged records: None, PyInt(n), and  *)
(* the string returned by replace_query_param.  replace_query_param is     *)
(* imported from rest_framework and is not part of this file: its result   *)
(* is kept as the uninterpreted term of its three arguments.               *)
(***************************************************************************)
EXTENDS Integers, Sequences, FiniteSets, TLC

\* ---------------------------------------------------------------- bounds
MaxPage == 2
MaxItems == 1

\* ---------------------------------------------------------------- values
None == [t |-> "None"]
PyInt(n) == [t |-> "int", v |-> n]

Reqs == {"r1", "r2"}
Builders == {"b1", "b2"}
Items == {"a", "b"}
\* paginator.count is passed through unread: two sample totals
Counts == {0, 98}

\* request.build_absolute_uri() of the request objects the model hands in
Uris == {"https://api.example.com/things",
         "https://api.example.com/things?page=1&sort=name"}
Requests == {[t |-> "request", uri |-> u] : u \in Uris}
RequestContexts == {None} \cup Requests

\* Page-shaped objects: number, has_next(), has_previous(),
\* next_page_number(), previous_page_number(), paginator.count/num_pages.
\* Page numbers are 1-based; num_pages may be 0 (empty result set).
Pages ==
    [number : 1..MaxPage,
     has_next : BOOLEAN,
     has_previous : BOOLEAN,
     next_page_number : 1..MaxPage,
     previous_page_number : 1..MaxPage,
     paginator : [count : Counts, num_pages : 0..MaxPage]]

DataSeqs == UNION {[1..n -> Items] : n \in 0..MaxItems}

\* ---------------------------------------------------------------- helpers
\* The imported replace_query_param(url, key, val): an uninterpreted term.
replace_query_param(url, key, val) ==
    [t |-> "str", fn |-> "replace_query_param", url |-> url, key |-> key, val |-> val]

\* `request and request.build_absolute_uri() or ''` with the calls it makes.
absolute_uri_or_empty(request) ==
    IF request = None
    THEN [ret |-> "", calls |-> <<>>]
    ELSE [ret |-> IF request.uri = "" THEN "" ELSE request.uri,
          calls |-> <<"build_absolute_uri">>]

\* self.context.get('request')
context_get_request(context) ==
    IF "request" \in DOMAIN context THEN context.request ELSE None


\* ---------------------------------------------------------------- state
VARIABLES
    pc,       \* per request: "idle", "paginated", "done"
    inp,      \* per request: its page, request context and builder instance
    builder,  \* per builder instance: self.page and self.request
    users,    \* per builder instance: the requests that ever paginated on it
    given,    \* per request: the items passed to get_paginated_response
    out,      \* per request: the result of get_paginated_response, or None
    flat      \* per request: the result of PaginationSerializer, or None

vars == <<pc, inp, builder, users, given, out, flat>>

\* ------------------------------------------------- PageNumberPagination
\* Mutant: `if index is None` in place of `if not index`.
build_link_none_only(self, index) ==
    IF index = None
    THEN [ret |-> None, calls |-> <<>>]
    ELSE LET url == absolute_uri_or_empty(self.request)
         IN  [ret |-> replace_query_param(url.ret, "page", index.v),
              calls |-> url.calls \o <<"replace_query_param">>]

\* Mutant: `url = self.request.build_absolute_uri()` with no guard for a
\* missing request (attribute access on None raises).
build_link_unguarded_request(self, index) ==
    IF index = None \/ index = PyInt(0)
    THEN [ret |-> None, calls |-> <<>>]
    ELSE IF self.request = None
         THEN [ret |-> [t |-> "raise", exc |-> "AttributeError"], calls |-> <<>>]
         ELSE [ret |-> replace_query_param(self.request.uri, "page", index.v),
               calls |-> <<"build_absolute_uri", "replace_query_param">>]

\* build_link(self, index): None for a falsy index (None or 0), else the
\* request's absolute URI (or '') with its `page` parameter replaced.
build_link(self, index) ==
    IF index = None \/ index = PyInt(0)
    THEN [ret |-> None, calls |-> <<>>]
    ELSE LET url == absolute_uri_or_empty(self.request)
         IN  [ret |-> replace_query_param(url.ret, "page", index.v),
              calls |-> url.calls \o <<"replace_query_param">>]

\* The Response built from the locals `next` and `previous`, with the calls
\* made so far (dict items are evaluated in source order).
Response(self, data, next, previous, calls) ==
    LET num_pages == self.page.paginator.num_pages
        first == build_link(self, PyInt(1))
        last  == build_link(self, PyInt(num_pages))
        nxt   == build_link(self, next)
        prv   == build_link(self, previous)
    IN  [ret |-> [results |-> data,
                  meta |-> [pagination |->
                              [page  |-> self.page.number,
                               pages |-> num_pages,
                               count |-> self.page.paginator.count]],
                  links |-> [first |-> first.ret,
                             last  |-> last.ret,
                             next  |-> nxt.ret,
                             prev  |-> prv.ret]],
         next |-> next,
         previous |-> previous,
         calls |-> calls \o first.calls \o last.calls \o nxt.calls \o prv.calls]

\* Mutant: `next = self.page.next_page_number()` without the has_next check.
get_paginated_response_next_unguarded(self, data) ==
    LET page == self.page
        next == PyInt(page.next_page_number)
        previous == IF page.has_previous THEN PyInt(page.previous_page_number) ELSE None
        calls == <<"next_page_number", "has_previous">>
                 \o (IF page.has_previous THEN <<"previous_page_number">> ELSE <<>>)
    IN  Response(self, data, next, previous, calls)

\* Mutant: `previous = self.page.previous_page_number()` without the check.
get_paginated_response_previous_unguarded(self, data) ==
    LET page == self.page
        next == IF page.has_next THEN PyInt(page.next_page_number) ELSE None
        previous == PyInt(page.previous_page_number)
        calls == <<"has_next">>
                 \o (IF page.has_next THEN <<"next_page_number">> ELSE <<>>)
                 \o <<"previous_page_number">>
    IN  Response(self, data, next, previous, calls)

\* Mutant: ('first', self.build_link(self.page.number)).
get_paginated_response_first_is_current(self, data) ==
    LET page == self.page
        next == IF page.has_next THEN PyInt(page.next_page_number) ELSE None
        previous == IF page.has_previous THEN PyInt(page.previous_page_number) ELSE None
        calls == <<"has_next">>
                 \o (IF page.has_next THEN <<"next_page_number">> ELSE <<>>)
                 \o <<"has_previous">>
                 \o (IF page.has_previous THEN <<"previous_page_number">> ELSE <<>>)
        r == Response(self, data, next, previous, calls)
    IN  [r EXCEPT !.ret.links.first = build_link(self, PyInt(page.number)).ret]

\* Mutant: ('pages', paginator.count) and ('count', paginator.num_pages).
get_paginated_response_meta_swapped(self, data) ==
    LET page == self.page
        next == IF page.has_next THEN PyInt(page.next_page_number) ELSE None
        previous == IF page.has_previous THEN PyInt(page.previous_page_number) ELSE None
        calls == <<"has_next">>
                 \o (IF page.has_next THEN <<"next_page_number">> ELSE <<>>)
                 \o <<"has_previous">>
                 \o (IF page.has_previous THEN <<"previous_page_number">> ELSE <<>>)
        r == Response(self, data, next, previous, calls)
    IN  [r EXCEPT !.ret.meta.pagination.pages = page.paginator.count,
                  !.ret.meta.pagination.count = page.paginator.num_pages]

\* Mutant: the page is kept in one place shared by all builder instances
\* (a class-level attribute) instead of on the instance.
get_paginated_response_class_level_page(self, data) ==
    LET shared == IF builder["b1"].page = None THEN self.page ELSE builder["b1"].page
        page == shared
        next == IF page.has_next THEN PyInt(page.next_page_number) ELSE None
        previous == IF page.has_previous THEN PyInt(page.previous_page_number) ELSE None
        calls == <<"has_next">>
                 \o (IF page.has_next THEN <<"next_page_number">> ELSE <<>>)
                 \o <<"has_previous">>
                 \o (IF page.has_previous THEN <<"previous_page_number">> ELSE <<>>)
    IN  Response([self EXCEPT !.page = shared], data, next, previous, calls)

\* get_paginated_response(self, data)
get_paginated_response(self, data) ==
    LET page == self.page
        next == IF page.has_next THEN PyInt(page.next_page_number) ELSE None
        previous == IF page.has_previous THEN PyInt(page.previous_page_number) ELSE None
        calls == <<"has_next">>
                 \o (IF page.has_next THEN <<"next_page_number">> ELSE <<>>)
                 \o <<"has_previous">>
                 \o (IF page.has_previous THEN <<"previous_page_number">> ELSE <<>>)
    IN  Response(self, data, next, previous, calls)

\* ------------------------------------------------------- legacy fields
NextPageLinkField_to_representation(context, value) ==
    IF ~value.has_next
    THEN [ret |-> None, calls |-> <<"has_next">>]
    ELSE LET page == value.next_page_number
             url == absolute_uri_or_empty(context_get_request(context))
         IN  [ret |-> replace_query_param(url.ret, "page", page),
              calls |-> <<"has_next", "next_page_number">> \o url.calls
                        \o <<"replace_query_param">>]

NextPageField_to_representation(value) ==
    IF ~value.has_next
    THEN [ret |-> None, calls |-> <<"has_next">>]
    ELSE [ret |-> PyInt(value.next_page_number),
          calls |-> <<"has_next", "next_page_number">>]

PreviousPageLinkField_to_representation(context, value) ==
    IF ~value.has_previous
    THEN [ret |-> None, calls |-> <<"has_previous">>]
    ELSE LET page == value.previous_page_number
             url == absolute_uri_or_empty(context_get_request(context))
         IN  [ret |-> replace_query_param(url.ret, "page", page),
              calls |-> <<"has_previous", "previous_page_number">> \o url.calls
                        \o <<"replace_query_param">>]

PreviousPageField_to_representation(value) ==
    IF ~value.has_previous
    THEN [ret |-> None, calls |-> <<"has_previous">>]
    ELSE [ret |-> PyInt(value.previous_page_number),
          calls |-> <<"has_previous", "previous_page_number">>]

PageField_to_representation(value) == value.number

\* Mutant: total = ReadOnlyField(source='paginator.count').
PaginationSerializer_total_is_count(context, value) ==
    LET next == NextPageField_to_representation(value)
        next_link == NextPageLinkField_to_representation(context, value)
        previous == PreviousPageField_to_representation(value)
        previous_link == PreviousPageLinkField_to_representation(context, value)
    IN  [ret |-> [next |-> next.ret,
                  next_link |-> next_link.ret,
                  page |-> PageField_to_representation(value),
                  previous |-> previous.ret,
                  previous_link |-> previous_link.ret,
                  count |-> value.paginator.count,
                  total |-> value.paginator.count],
         calls |-> next.calls \o next_link.calls \o previous.calls
                   \o previous_link.calls]

\* PaginationSerializer: the seven fields, each applied to the page
\* (source='*') or to an attribute of its paginator.
PaginationSerializer(context, value) ==
    LET next == NextPageField_to_representation(value)
        next_link == NextPageLinkField_to_representation(context, value)
        previous == PreviousPageField_to_representation(value)
        previous_link == PreviousPageLinkField_to_representation(context, value)
    IN  [ret |-> [next |-> next.ret,
                  next_link |-> next_link.ret,
                  page |-> PageField_to_representation(value),
                  previous |-> previous.ret,
                  previous_link |-> previous_link.ret,
                  count |-> value.paginator.count,
                  total |-> value.paginator.num_pages],
         calls |-> next.calls \o next_link.calls \o previous.calls
                   \o previous_link.calls]

\* The serializer context of a request: the key is absent without a request.
ContextOf(request) ==
    IF request = None THEN <<>> ELSE [request |-> request]

\* ---------------------------------------------------------- operations
Init ==
    /\ pc = [r \in Reqs |-> "idle"]
    /\ inp = [r \in Reqs |-> None]
    /\ builder = [b \in Builders |-> [page |-> None, request |-> None]]
    /\ users = [b \in Builders |-> {}]
    /\ given = [r \in Reqs |-> <<>>]
    /\ out = [r \in Reqs |-> None]
    /\ flat = [r \in Reqs |-> None]

\* The inherited paginate_queryset, as far as this file reads its effect:
\* it stores the page and the request on the builder instance.
paginate_queryset(r, b, page, request) ==
    /\ pc[r] = "idle"
    /\ pc' = [pc EXCEPT ![r] = "paginated"]
    /\ inp' = [inp EXCEPT ![r] = [page |-> page, request |-> request, builder |-> b]]
    /\ builder' = [builder EXCEPT ![b] = [page |-> page, request |-> request]]
    /\ users' = [users EXCEPT ![b] = @ \cup {r}]
    /\ out' = [out EXCEPT ![r] = None]
    /\ flat' = [flat EXCEPT ![r] = None]
    /\ given' = [given EXCEPT ![r] = <<>>]

\* The view calls get_paginated_response(data) on the builder it paginated with.
GetPaginatedResponse(r, data) ==
    /\ pc[r] = "paginated"
    /\ builder[inp[r].builder].page # None
    /\ out' = [out EXCEPT ![r] = get_paginated_response(builder[inp[r].builder], data)]
    /\ given' = [given EXCEPT ![r] = data]
    /\ pc' = [pc EXCEPT ![r] = "done"]
    /\ UNCHANGED <<inp, builder, users, flat>>

\* The legacy serializer renders the same page with the request's context.
SerializeLegacy(r) ==
    /\ pc[r] # "idle"
    /\ flat[r] = None
    /\ flat' = [flat EXCEPT ![r] = PaginationSerializer(ContextOf(inp[r].request), inp[r].page)]
    /\ UNCHANGED <<pc, inp, builder, users, given, out>>

\* The response is serialized and the request ends: its page, items and
\* outputs are discarded; the builder instance keeps its page and request
\* references.
Finish(r) ==
    /\ pc[r] = "done"
    /\ pc' = [pc EXCEPT ![r] = "idle"]
    /\ inp' = [inp EXCEPT ![r] = None]
    /\ given' = [given EXCEPT ![r] = <<>>]
    /\ out' = [out EXCEPT ![r] = None]
    /\ flat' = [flat EXCEPT ![r] = None]
    /\ UNCHANGED <<builder, users>>

\* One request at a time on its own builder instance, with any page,
\* request context and items.
Next ==
    \/ \E page \in Pages, request \in RequestContexts :
          paginate_queryset("r1", "b1", page, request)
    \/ \E data \in DataSeqs : GetPaginatedResponse("r1", data)
    \/ SerializeLegacy("r1")
    \/ Finish("r1")

Spec == Init /\ [][Next]_vars

\* Concurrent requests that may share a builder instance.
SharedPages ==
    {p \in Pages : /\ p.paginator.num_pages = MaxPage
                   /\ p.paginator.count = 98
                   /\ p.has_next = (p.number < MaxPage)
                   /\ p.has_previous = (p.number > 1)
                   /\ p.next_page_number = IF p.number < MaxPage THEN p.number + 1 ELSE MaxPage
                   /\ p.previous_page_number = IF p.number > 1 THEN p.number - 1 ELSE 1}

NextShared ==
    \E r \in Reqs :
        \/ \E b \in Builders, page \in SharedPages, request \in RequestContexts :
              paginate_queryset(r, b, page, request)
        \/ GetPaginatedResponse(r, <<"a">>)
        \/ Finish(r)

SpecShared == Init /\ [][NextShared]_vars


\* ============================================================== claims
LinkKeys == {"first", "last", "next", "prev"}
Done(r) == pc[r] = "done"
\* The builder as the request's own page and request context would set it.
Self(r) == [page |-> inp[r].page, request |-> inp[r].request]
\* The link base of the request's own context.
Base(r) == IF inp[r].request = None THEN "" ELSE inp[r].request.uri
\* The page index each link of the request's own page stands for.
IndexOf(r, k) ==
    CASE k = "first" -> 1
      [] k = "last"  -> inp[r].page.paginator.num_pages
      [] k = "next"  -> inp[r].page.next_page_number
      [] k = "prev"  -> inp[r].page.previous_page_number
\* Whether the request's own page has the page a link stands for.
HasPage(r, k) ==
    CASE k = "first" -> TRUE
      [] k = "last"  -> inp[r].page.paginator.num_pages >= 1
      [] k = "next"  -> inp[r].page.has_next
      [] k = "prev"  -> inp[r].page.has_previous
OwnLink(r, k) ==
    IF HasPage(r, k) THEN replace_query_param(Base(r), "page", IndexOf(r, k)) ELSE None
OwnMeta(r) ==
    [pagination |-> [page  |-> inp[r].page.number,
                     pages |-> inp[r].page.paginator.num_pages,
                     count |-> inp[r].page.paginator.count]]
Count(calls, name) == Cardinality({i \in 1..Len(calls) : calls[i] = name})

\* C1: when has_next() is false, links.next and the computed next page are
\* null; when it is true, links.next is build_link(next_page_number()).
Thm_C1 ==
    \A r \in Reqs : Done(r) =>
        LET p == inp[r].page
            o == out[r]
        IN  /\ ~p.has_next => (o.ret.links.next = None /\ o.next = None)
            /\ p.has_next =>
                 o.ret.links.next = build_link(Self(r), PyInt(p.next_page_number)).ret
Wit_C1 ==
    \E r \in Reqs : Done(r) /\ ~inp[r].page.has_next /\ inp[r].page.number = inp[r].page.paginator.num_pages
                    /\ out[r].ret.links.next = None

\* C2: when has_previous() is false, links.prev is null; when it is true,
\* links.prev is build_link(previous_page_number()).
Thm_C2 ==
    \A r \in Reqs : Done(r) =>
        LET p == inp[r].page
            o == out[r]
        IN  /\ ~p.has_previous => o.ret.links.prev = None
            /\ p.has_previous =>
                 o.ret.links.prev = build_link(Self(r), PyInt(p.previous_page_number)).ret
Wit_C2 ==
    \E r \in Reqs : Done(r) /\ ~inp[r].page.has_previous /\ out[r].ret.links.prev = None
                    /\ inp[r].page.number = 1

\* C3: links.first equals build_link(1) and is not null when num_pages >= 1,
\* with or without a request context.
Thm_C3 ==
    \A r \in Reqs : Done(r) =>
        /\ out[r].ret.links.first = build_link(Self(r), PyInt(1)).ret
        /\ inp[r].page.paginator.num_pages >= 1 => out[r].ret.links.first # None
Wit_C3 ==
    \E r \in Reqs : Done(r) /\ inp[r].page.paginator.num_pages >= 1
                    /\ inp[r].page.number = 2 /\ inp[r].request = None
                    /\ out[r].ret.links.first = replace_query_param("", "page", 1)

\* C4: build_link returns null and builds no URL for an index of None or 0;
\* links.last is null when num_pages is 0 and the non-null link to page
\* num_pages when num_pages >= 1; a URL is built once per non-null link.
Thm_C4 ==
    \A r \in Reqs : Done(r) =>
        LET n == inp[r].page.paginator.num_pages
            links == out[r].ret.links
        IN  /\ build_link(Self(r), None) = [ret |-> None, calls |-> <<>>]
            /\ build_link(Self(r), PyInt(0)) = [ret |-> None, calls |-> <<>>]
            /\ n = 0 => links.last = None
            /\ n >= 1 => (links.last # None
                          /\ links.last = replace_query_param(Base(r), "page", n))
            /\ Count(out[r].calls, "replace_query_param")
                 = Cardinality({k \in LinkKeys : links[k] # None})
Wit_C4 ==
    \E r \in Reqs : Done(r) /\ inp[r].page.paginator.num_pages = 0
                    /\ out[r].ret.links.last = None /\ inp[r].request # None

\* C6: without a request context the envelope and the legacy link fields
\* are built, every non-null link is replace_query_param('', 'page', N) for
\* its page index N, and the null links are those of any request context.
Thm_C6 ==
    \A r \in Reqs : inp[r] # None /\ inp[r].request = None =>
        /\ Done(r) =>
             \A k \in LinkKeys :
                LET l == out[r].ret.links[k]
                IN  /\ l # None => l = replace_query_param("", "page", IndexOf(r, k))
                    /\ \A rq \in Requests :
                         (l = None) <=>
                         (get_paginated_response([page |-> inp[r].page, request |-> rq],
                                                 given[r]).ret.links[k] = None)
        /\ flat[r] # None =>
             /\ flat[r].ret.next_link # None =>
                  flat[r].ret.next_link
                    = replace_query_param("", "page", inp[r].page.next_page_number)
             /\ flat[r].ret.previous_link # None =>
                  flat[r].ret.previous_link
                    = replace_query_param("", "page", inp[r].page.previous_page_number)
             /\ \A rq \in Requests :
                  LET f == PaginationSerializer(ContextOf(rq), inp[r].page).ret
                  IN  /\ (flat[r].ret.next_link = None) <=> (f.next_link = None)
                      /\ (flat[r].ret.previous_link = None) <=> (f.previous_link = None)
Wit_C6 ==
    \E r \in Reqs : Done(r) /\ inp[r].request = None /\ flat[r] # None
                    /\ out[r].ret.links.next # None /\ out[r].ret.links.prev = None
                    /\ flat[r].ret.next_link # None

\* C7: results is the given item sequence unchanged and meta.pagination is
\* exactly page.number, paginator.num_pages and paginator.count.
Thm_C7 ==
    \A r \in Reqs : Done(r) =>
        /\ DOMAIN out[r].ret = {"results", "meta", "links"}
        /\ out[r].ret.results = given[r]
        /\ out[r].ret.meta = OwnMeta(r)
Wit_C7 ==
    \E r \in Reqs : Done(r) /\ Len(given[r]) >= 1
                    /\ inp[r].page.paginator.num_pages # inp[r].page.paginator.count
                    /\ out[r].ret.results = given[r]

\* C8: for the same page and request context the legacy flat shape carries
\* the values of the nested envelope.
Thm_C8 ==
    \A r \in Reqs : Done(r) /\ flat[r] # None =>
        LET f == flat[r].ret
            e == out[r].ret
        IN  /\ f.next_link = e.links.next
            /\ f.previous_link = e.links.prev
            /\ f.page = e.meta.pagination.page
            /\ f.total = e.meta.pagination.pages
            /\ f.count = e.meta.pagination.count
            /\ (f.next = None) <=> (e.links.next = None)
            /\ f.next # None => e.links.next = replace_query_param(Base(r), "page", f.next.v)
            /\ (f.previous = None) <=> (e.links.prev = None)
            /\ f.previous # None =>
                 e.links.prev = replace_query_param(Base(r), "page", f.previous.v)
Wit_C8 ==
    \E r \in Reqs : Done(r) /\ flat[r] # None /\ flat[r].ret.next # None
                    /\ flat[r].ret.previous # None /\ inp[r].request # None
                    /\ flat[r].ret.total # flat[r].ret.count

\* The envelope of a request holds only values of its own page and request.
OwnEnvelope(r) ==
    /\ out[r].ret.meta = OwnMeta(r)
    /\ \A k \in LinkKeys : out[r].ret.links[k] = OwnLink(r, k)

Guarded(calls, p) ==
    \A i \in 1..Len(calls) :
        /\ calls[i] = "next_page_number" =>
             (p.has_next /\ \E j \in 1..(i - 1) : calls[j] = "has_next")
        /\ calls[i] = "previous_page_number" =>
             (p.has_previous /\ \E j \in 1..(i - 1) : calls[j] = "has_previous")
Thm_C10 ==
    \A r \in Reqs :
        /\ Done(r) => Guarded(out[r].calls, inp[r].page)
        /\ flat[r] # None => Guarded(flat[r].calls, inp[r].page)
Wit_C10 ==
    \E r \in Reqs : Done(r) /\ flat[r] # None
                    /\ inp[r].page.has_next /\ ~inp[r].page.has_previous
                    /\ Count(out[r].calls, "next_page_number") = 1
                    /\ Count(out[r].calls, "previous_page_number") = 0

====
